---- MODULE Spec2Model ----
(***************************************************************************)
(* Verification model of earphones.heaven.lab:                             *)
(*   - EightDProcessor  (src/lib/8d-effects.ts): the rotation engine, the  *)
(*     host's animation-frame queue and the audio graph it wires;          *)
(*   - AudioProcessor   (client/src/lib/audio-processor.ts): analyzeFile,  *)
(*     detectBPM and calculateOptimalSpeed.                                *)
(*                                                                         *)
(* Units (fixed point, so that the arithmetic stays in the integers):      *)
(*   speed, intensity, radius, confidence, optimalSpeed : hundredths       *)
(*   angle                                              : 1/2000 radian    *)
(*        (angle += speed * 0.05 adds speed[hundredths] units)             *)
(*   panner position                                    : thousandths      *)
(***************************************************************************)
EXTENDS Integers, Sequences, FiniteSets, TLC

VARIABLES engine, lastOp, stopReturned, destroyed, proc, call, scan, calls, page

vars == <<engine, lastOp, stopReturned, destroyed, proc, call, scan, calls, page>>

(***************************************************************************)
(* Bounds                                                                  *)
(***************************************************************************)
\* handles handed out by requestAnimationFrame, i.e. executions of animate
MaxFrames == 4

(***************************************************************************)
(* Math.cos / Math.sin in fixed point.  The argument is in 1/2000 radian,  *)
(* the result in thousandths.                                              *)
(***************************************************************************)
Pi == 6283

HalfPi == 3142

TwoPi == 12566

Abs(n) == IF n < 0 THEN -n ELSE n

Reduce(a) == LET m == a % TwoPi IN IF m > Pi THEN m - TwoPi ELSE m

CosSeries(x) ==
    LET y  == (x * x) \div 4000
        t4 == 1000 - (y \div 56)
        t3 == 1000 - ((y * t4) \div 30000)
        t2 == 1000 - ((y * t3) \div 12000)
    IN  1000 - ((y * t2) \div 2000)

SinSeries(x) ==
    LET y  == (x * x) \div 4000
        s3 == 1000 - (y \div 42)
        s2 == 1000 - ((y * s3) \div 20000)
        s1 == 1000 - ((y * s2) \div 6000)
    IN  (x * s1) \div 2000

Cos(a) ==
    LET x == Abs(Reduce(a))
    IN  IF x > HalfPi THEN -CosSeries(Pi - x) ELSE CosSeries(x)

Sin(a) ==
    LET r == Reduce(a)
        x == Abs(r)
        s == IF x > HalfPi THEN SinSeries(Pi - x) ELSE SinSeries(x)
    IN  IF r < 0 THEN -s ELSE s

(***************************************************************************)
(* The audio graph: a set of directed connections between nodes.           *)
(***************************************************************************)
Null == 0

Edge(a, b) == <<a, b>>

Disconnect(edges, node) == {e \in edges : e[1] # node}

GraphEdges ==
    { Edge("source", "gain"), Edge("gain", "analyser"),
      Edge("analyser", "panner"), Edge("panner", "destination") }

(***************************************************************************)
(* EightDProcessor.  The record holds the object's fields, the position of *)
(* its panner node, the edges of the audio graph, and the host's list of   *)
(* animation-frame callbacks (frames) with the next handle it hands out.   *)
(***************************************************************************)
DefaultConfig == [speed |-> 250, intensity |-> 100, radius |-> 500]

StartPosition == <<3000, 0, 0>>

CenterFront == <<0, 0, -1000>>

connectNodes(e) ==
    [e EXCEPT !.edges = Disconnect(e.edges, "source") \cup GraphEdges]

NewEngine_centerFront ==
    connectNodes([ isActive    |-> FALSE,
                   animationId |-> Null,
                   angle       |-> 0,
                   config      |-> DefaultConfig,
                   position    |-> CenterFront,
                   edges       |-> {},
                   frames      |-> {},
                   nextFrame   |-> 1 ])

NewEngine ==
    connectNodes([ isActive    |-> FALSE,
                   animationId |-> Null,
                   angle       |-> 0,
                   config      |-> DefaultConfig,
                   position    |-> StartPosition,
                   edges       |-> {},
                   frames      |-> {},
                   nextFrame   |-> 1 ])

requestAnimationFrame(e) ==
    [e EXCEPT !.frames      = e.frames \cup {e.nextFrame},
              !.animationId = e.nextFrame,
              !.nextFrame   = e.nextFrame + 1]

cancelAnimationFrame(e, id) == [e EXCEPT !.frames = e.frames \ {id}]

animate_fixedStep(e) ==
    IF ~e.isActive THEN e
    ELSE LET angle  == e.angle + DefaultConfig.speed
             radius == e.config.radius * e.config.intensity
             x      == (Cos(angle) * radius) \div 10000
             z      == (Sin(angle) * radius) \div 10000
         IN  requestAnimationFrame(
                 [e EXCEPT !.angle = angle, !.position = <<x, 0, z>>])

animate_staleRadius(e) ==
    IF ~e.isActive THEN e
    ELSE LET angle  == e.angle + e.config.speed
             radius == DefaultConfig.radius * DefaultConfig.intensity
             x      == (Cos(angle) * radius) \div 10000
             z      == (Sin(angle) * radius) \div 10000
         IN  requestAnimationFrame(
                 [e EXCEPT !.angle = angle, !.position = <<x, 0, z>>])

animate_noGuard(e) ==
    LET angle  == e.angle + e.config.speed
        radius == e.config.radius * e.config.intensity
        x      == (Cos(angle) * radius) \div 10000
        z      == (Sin(angle) * radius) \div 10000
    IN  requestAnimationFrame(
            [e EXCEPT !.angle = angle, !.position = <<x, 0, z>>])

animate_yzSwapped(e) ==
    IF ~e.isActive THEN e
    ELSE LET angle  == e.angle + e.config.speed
             radius == e.config.radius * e.config.intensity
             x      == (Cos(angle) * radius) \div 10000
             z      == (Sin(angle) * radius) \div 10000
         IN  requestAnimationFrame(
                 [e EXCEPT !.angle = angle, !.position = <<x, z, 0>>])

animate_noReschedule(e) ==
    IF ~e.isActive THEN e
    ELSE LET angle  == e.angle + e.config.speed
             radius == e.config.radius * e.config.intensity
             x      == (Cos(angle) * radius) \div 10000
             z      == (Sin(angle) * radius) \div 10000
         IN  [e EXCEPT !.angle = angle, !.position = <<x, 0, z>>]

animate(e) ==
    IF ~e.isActive THEN e
    ELSE LET angle  == e.angle + e.config.speed
             radius == e.config.radius * e.config.intensity
             x      == (Cos(angle) * radius) \div 10000
             z      == (Sin(angle) * radius) \div 10000
             y      == 0
         IN  requestAnimationFrame(
                 [e EXCEPT !.angle = angle, !.position = <<x, y, z>>])

start_noGuard(e) == animate([e EXCEPT !.isActive = TRUE])

start_onlySchedules(e) ==
    IF e.isActive THEN e
    ELSE requestAnimationFrame([e EXCEPT !.isActive = TRUE])

start(e) ==
    IF e.isActive THEN e
    ELSE animate([e EXCEPT !.isActive = TRUE])

stop_keepsFrame(e) ==
    [e EXCEPT !.isActive = FALSE, !.position = CenterFront]

stop_noCancel(e) ==
    [e EXCEPT !.isActive = FALSE, !.animationId = Null, !.position = CenterFront]

stop_noReset(e) ==
    LET e1 == [e EXCEPT !.isActive = FALSE]
    IN  IF e1.animationId # Null
        THEN [cancelAnimationFrame(e1, e1.animationId) EXCEPT !.animationId = Null]
        ELSE e1

stop(e) ==
    LET e1 == [e EXCEPT !.isActive = FALSE]
        e2 == IF e1.animationId # Null
              THEN [cancelAnimationFrame(e1, e1.animationId)
                        EXCEPT !.animationId = Null]
              ELSE e1
    IN  [e2 EXCEPT !.position = CenterFront]

ConfigKeys == {"speed", "intensity", "radius"}

updateConfig_overDefaults(e, partial) ==
    [e EXCEPT !.config =
        [k \in ConfigKeys |->
            IF k \in DOMAIN partial THEN partial[k] ELSE DefaultConfig[k]]]

updateConfig(e, partial) ==
    [e EXCEPT !.config =
        [k \in ConfigKeys |->
            IF k \in DOMAIN partial THEN partial[k] ELSE e.config[k]]]

destroy(e) ==
    LET e1 == stop(e)
        e2 == [e1 EXCEPT !.edges = Disconnect(e1.edges, "panner")]
        e3 == [e2 EXCEPT !.edges = Disconnect(e2.edges, "gain")]
    IN  [e3 EXCEPT !.edges = Disconnect(e3.edges, "analyser")]

(***************************************************************************)
(* Arguments of updateConfig: every partial config over a few values,      *)
(* the ones the page sends and out-of-range ones.                          *)
(***************************************************************************)
SpeedValues == {-100, 0, 200}

IntensityValues == {0, 100}

RadiusValues == {100, 500}

ValuesOf(k) ==
    IF k = "speed" THEN SpeedValues
    ELSE IF k = "intensity" THEN IntensityValues ELSE RadiusValues

PartialConfigs ==
    UNION { {p \in [ks -> SpeedValues \cup IntensityValues \cup RadiusValues] :
                \A k \in ks : p[k] \in ValuesOf(k)} : ks \in SUBSET ConfigKeys }

(***************************************************************************)
(* AudioProcessor.  A decoded AudioBuffer is [sampleRate, channelData]     *)
(* with channelData the samples of channel 0 (channelData[j+1] is the      *)
(* code's channelData[j]).  Energies are kept as the window's sum of       *)
(* squares, i.e. as numerators over the common denominator windowSize;     *)
(* peak times are kept in samples, i.e. as numerators over sampleRate.     *)
(***************************************************************************)
MaxLen == 9

LongLen == 32

\* Math.max(...energy) passes every energy as an argument; the host throws a
\* RangeError above its argument limit (scaled down here to SpreadLimit).
SpreadLimit == 28

\* sample rates with hopSize >= 1 (windowSize 2 and 4, hopSize 1 and 2)
SampleRates == {20, 40}

SampleValues == {0, 1}

Burst(p) == p .. (p + 1)

BurstBuffersOf(n) ==
    { [j \in 1..n |-> IF j \in Burst(p) \cup Burst(q) THEN 1 ELSE 0] :
        p, q \in 1..(n - 1) }

BurstBuffers == BurstBuffersOf(LongLen - 4) \cup BurstBuffersOf(LongLen)

\* a loud burst (amplitude 3) at p and a quiet one (amplitude 1) at q
LoudQuietBuffers ==
    { [j \in 1..(LongLen - 4) |->
          IF j \in Burst(p) THEN 3 ELSE IF j \in Burst(q) THEN 1 ELSE 0] :
        p, q \in 1..(LongLen - 5) }

\* three bursts: the first fixed, the other two anywhere after it
TripleBurstBuffers ==
    { [j \in 1..(LongLen - 4) |->
          IF j \in Burst(3) \cup Burst(q) \cup Burst(r) THEN 1 ELSE 0] :
        q, r \in 8..(LongLen - 5) }

ChannelDatas ==
    UNION { [1..n -> SampleValues] : n \in 0..MaxLen }
        \cup BurstBuffers \cup LoudQuietBuffers \cup TripleBurstBuffers

AudioBuffers ==
    { [sampleRate |-> r, channelData |-> d] : r \in SampleRates, d \in ChannelDatas }

Files ==
    { [kind |-> "unreadable"], [kind |-> "corrupt"] }
        \cup { [kind |-> "audio", buffer |-> b] : b \in AudioBuffers }

Min(a, b) == IF a < b THEN a ELSE b

Max(a, b) == IF a > b THEN a ELSE b

\* Math.round(num / den) for den > 0: halves round up
Round(num, den) == (2 * num + den) \div (2 * den)

RECURSIVE SumSeq(_)
SumSeq(s) == IF s = <<>> THEN 0 ELSE Head(s) + SumSeq(Tail(s))

RECURSIVE MaxSeq(_)
MaxSeq(s) == IF Len(s) = 1 THEN s[1] ELSE Max(Head(s), MaxSeq(Tail(s)))

windowSize(b) == b.sampleRate \div 10

hopSize(b) == windowSize(b) \div 2

WindowSum(b, i) ==
    SumSeq([j \in 1..windowSize(b) |->
                b.channelData[i + j] * b.channelData[i + j]])

NumWindows(b) ==
    LET span == Len(b.channelData) - windowSize(b)
    IN  IF span <= 0 THEN 0 ELSE ((span - 1) \div hopSize(b)) + 1

energy(b) == [k \in 1..NumWindows(b) |-> WindowSum(b, (k - 1) * hopSize(b))]

IsLocalMax(en, i) == en[i + 1] > en[i] /\ en[i + 1] > en[i + 2]

AboveThreshold_tenth(en, i) == 10 * en[i + 1] > MaxSeq(en)

AboveThreshold(en, i) == 10 * en[i + 1] > 3 * MaxSeq(en)

peaks(b) ==
    LET en        == energy(b)
        IsPeak(i) == IsLocalMax(en, i) /\ AboveThreshold(en, i)
        found     == SelectSeq([i \in 1..(Len(en) - 2) |-> i], IsPeak)
    IN  [k \in 1..Len(found) |-> found[k] * hopSize(b)]

intervals(p) == [k \in 1..(Len(p) - 1) |-> p[k + 1] - p[k]]

SpreadThrows(b) ==
    LET en == energy(b)
    IN  /\ Len(en) > SpreadLimit
        /\ \E i \in 1..(Len(en) - 2) : IsLocalMax(en, i)

NoIntervalsBpm == 120

ClampBpm_noUpper(bpm) == Max(60, bpm)

ClampBpm(bpm) == Max(60, Min(200, bpm))

RawBpm_sumNotMean(b, iv) == Round(60 * b.sampleRate, SumSeq(iv))

RawBpm(b, iv) == Round(60 * b.sampleRate * Len(iv), SumSeq(iv))

detectBPM(b) ==
    LET iv == intervals(peaks(b))
    IN  IF Len(iv) = 0 THEN NoIntervalsBpm ELSE ClampBpm(RawBpm(b, iv))

\* bpm values for which bpm / 60 * 0.25 * 100 is a half in exact arithmetic
\* but falls just below it in IEEE-754 doubles, so Math.round rounds down
\* (138 gives 57.49999999999999, hence 0.57)
TieRoundsDown == {138, 246, 306, 522, 582, 1014, 1074, 1134, 1194}

calculateOptimalSpeed_noBeatFreq(bpm) ==
    Round(Max(50 * 4, Min(500 * 4, bpm * 100)), 4)

calculateOptimalSpeed(bpm) ==
    LET clamped == Max(50 * 240, Min(500 * 240, bpm * 100))
    IN  IF bpm \in TieRoundsDown /\ clamped = bpm * 100
        THEN clamped \div 240
        ELSE Round(clamped, 240)

Fallback == [bpm |-> 120, confidence |-> 50, optimalSpeed |-> 200]

AnalysisResult_fixedSpeed(bpm) ==
    [bpm |-> bpm, confidence |-> 85, optimalSpeed |-> 200]

AnalysisResult(bpm) ==
    [bpm |-> bpm, confidence |-> 85, optimalSpeed |-> calculateOptimalSpeed(bpm)]

Pending == [state |-> "pending"]

Fulfilled(v) == [state |-> "fulfilled", value |-> v]

Rejected(msg) == [state |-> "rejected", reason |-> msg]

NoFile == [kind |-> "none"]

\* no call of a pure method is in progress
NoCall == [fn |-> "none"]

\* detectBPM is not executing
NoScan == [i |-> 0, pushes |-> 0, k |-> 0]

\* no overlapping analyzeFile calls are in progress
NoCalls == <<>>

\* the page is not mounted
NoPage == [mounted |-> FALSE]

\* this.audioBuffer = null; no decoded AudioBuffer has sample rate 0
NullBuffer == [sampleRate |-> 0, channelData |-> <<>>]

NewProcessor(ctx) ==
    [ audioContext |-> ctx,
      audioBuffer  |-> NullBuffer,
      pc           |-> "idle",
      file         |-> NoFile,
      bpm          |-> Null,
      promise      |-> Pending ]

InitTempo ==
    /\ proc \in { NewProcessor(ctx) : ctx \in BOOLEAN }
    /\ engine = NewEngine
    /\ lastOp = "new"
    /\ stopReturned = FALSE
    /\ destroyed = FALSE
    /\ call = NoCall
    /\ scan = NoScan
    /\ calls = NoCalls
    /\ page = NoPage

Settle(p, outcome) == [p EXCEPT !.pc = "settled", !.promise = outcome]

AnalyzeFile ==
    /\ proc.pc = "idle"
    /\ \E file \in Files :
          proc' = IF ~proc.audioContext
                  THEN Settle([proc EXCEPT !.file = file],
                              Rejected("Audio context not initialized"))
                  ELSE [proc EXCEPT !.file = file, !.pc = "arrayBuffer"]
    /\ UNCHANGED <<engine, lastOp, stopReturned, destroyed, call, scan, calls, page>>

ArrayBufferSettles ==
    /\ proc.pc = "arrayBuffer"
    /\ proc' = IF proc.file.kind = "unreadable"
               THEN Settle(proc, Fulfilled(Fallback))
               ELSE [proc EXCEPT !.pc = "decodeAudioData"]
    /\ UNCHANGED <<engine, lastOp, stopReturned, destroyed, call, scan, calls, page>>

DecodeSettles ==
    /\ proc.pc = "decodeAudioData"
    /\ proc' = IF proc.file.kind = "corrupt"
               THEN Settle(proc, Fulfilled(Fallback))
               ELSE LET p == [proc EXCEPT !.audioBuffer = proc.file.buffer]
                    IN  IF SpreadThrows(p.audioBuffer)
                        THEN Settle(p, Fulfilled(Fallback))
                        ELSE [p EXCEPT !.pc  = "detectBPM",
                                       !.bpm = detectBPM(p.audioBuffer)]
    /\ UNCHANGED <<engine, lastOp, stopReturned, destroyed, call, scan, calls, page>>

DetectSettles ==
    /\ proc.pc = "detectBPM"
    /\ proc' = Settle(proc, Fulfilled(AnalysisResult(proc.bpm)))
    /\ UNCHANGED <<engine, lastOp, stopReturned, destroyed, call, scan, calls, page>>

NextTempo == AnalyzeFile \/ ArrayBufferSettles \/ DecodeSettles \/ DetectSettles

(***************************************************************************)
(* The rhythmic multipliers.  Multipliers and slider values are in units   *)
(* of 1/1200 (0.25 = 300, 2/3 = 800, 1 = 1200, 0.01 = 12).                 *)
(***************************************************************************)
DefaultMultipliers == <<300, 600, 900, 1200, 1500, 1800, 2400>>

rhythmicRatios == <<300, 600, 800, 900, 1200, 1600, 1800, 2400, 3000, 3600>>

InRange_strict(mult) == mult > 300 /\ mult < 3600

InRange(mult) == mult >= 300 /\ mult <= 3600

RECURSIVE Insert(_, _)
Insert(x, s) ==
    IF s = <<>> THEN <<x>>
    ELSE IF x < Head(s) THEN <<x>> \o s
         ELSE <<Head(s)>> \o Insert(x, Tail(s))

RECURSIVE SortAsc(_)
SortAsc(s) == IF s = <<>> THEN <<>> ELSE Insert(Head(s), SortAsc(Tail(s)))

getRhythmicMultipliers(bpm) ==
    IF bpm <= 0 THEN DefaultMultipliers
    ELSE SortAsc(SelectSeq(rhythmicRatios, InRange))

RECURSIVE ScanClosest_lastWins(_, _, _, _)
ScanClosest_lastWins(mults, value, closest, minDiff) ==
    IF mults = <<>> THEN closest
    ELSE LET diff == Abs(value - Head(mults))
         IN  IF diff <= minDiff
             THEN ScanClosest_lastWins(Tail(mults), value, Head(mults), diff)
             ELSE ScanClosest_lastWins(Tail(mults), value, closest, minDiff)

RECURSIVE ScanClosest(_, _, _, _)
ScanClosest(mults, value, closest, minDiff) ==
    IF mults = <<>> THEN closest
    ELSE LET diff == Abs(value - Head(mults))
         IN  IF diff < minDiff
             THEN ScanClosest(Tail(mults), value, Head(mults), diff)
             ELSE ScanClosest(Tail(mults), value, closest, minDiff)

getClosestRhythmicMultiplier(currentValue, bpm) ==
    LET rhythmicMults == getRhythmicMultipliers(bpm)
    IN  ScanClosest(rhythmicMults, currentValue, rhythmicMults[1],
                    Abs(currentValue - rhythmicMults[1]))

(***************************************************************************)
(* Calls of the pure methods: Init draws the method and its arguments,     *)
(* the action applies the method and records what it returns.              *)
(***************************************************************************)
MaxValue == 4000

SpeedBpmArgs == 0..1300

BpmArgs == (-2)..202

ClosestBpmArgs == {-1, 0, 60, 120}

ValueArgs == (-60)..MaxValue

PendingCalls ==
    { [fn |-> "calculateOptimalSpeed", bpm |-> b, state |-> "pending"] :
        b \in SpeedBpmArgs }
    \cup { [fn |-> "getRhythmicMultipliers", bpm |-> b, state |-> "pending"] :
        b \in BpmArgs }
    \cup { [fn |-> "getClosestRhythmicMultiplier", value |-> v, bpm |-> b,
            state |-> "pending"] : v \in ValueArgs, b \in ClosestBpmArgs }

InitCalls ==
    /\ call \in PendingCalls
    /\ engine = NewEngine
    /\ lastOp = "new"
    /\ stopReturned = FALSE
    /\ destroyed = FALSE
    /\ proc = NewProcessor(TRUE)
    /\ scan = NoScan
    /\ calls = NoCalls
    /\ page = NoPage

Return(c, v) ==
    [fn |-> c.fn, bpm |-> c.bpm, state |-> "returned", result |-> v,
     value |-> IF c.fn = "getClosestRhythmicMultiplier" THEN c.value ELSE 0]

CalculateOptimalSpeed ==
    /\ call.fn = "calculateOptimalSpeed" /\ call.state = "pending"
    /\ call' = Return(call, calculateOptimalSpeed(call.bpm))
    /\ UNCHANGED <<engine, lastOp, stopReturned, destroyed, proc, scan, calls, page>>

GetRhythmicMultipliers ==
    /\ call.fn = "getRhythmicMultipliers" /\ call.state = "pending"
    /\ call' = Return(call, getRhythmicMultipliers(call.bpm))
    /\ UNCHANGED <<engine, lastOp, stopReturned, destroyed, proc, scan, calls, page>>

GetClosestRhythmicMultiplier ==
    /\ call.fn = "getClosestRhythmicMultiplier" /\ call.state = "pending"
    /\ call' = Return(call, getClosestRhythmicMultiplier(call.value, call.bpm))
    /\ UNCHANGED <<engine, lastOp, stopReturned, destroyed, proc, scan, calls, page>>

NextCalls ==
    CalculateOptimalSpeed \/ GetRhythmicMultipliers \/ GetClosestRhythmicMultiplier

SpecCalls == InitCalls /\ [][NextCalls]_vars

(***************************************************************************)
(* Engine operations.  lastOp, stopReturned and destroyed record the       *)
(* history of calls: the last call that returned, whether stop() has       *)
(* returned with no start() since, and whether destroy() was ever called.  *)
(***************************************************************************)
InitEngine ==
    /\ engine = NewEngine
    /\ lastOp = "new"
    /\ stopReturned = FALSE
    /\ destroyed = FALSE
    /\ proc = NewProcessor(TRUE)
    /\ call = NoCall
    /\ scan = NoScan
    /\ calls = NoCalls
    /\ page = NoPage

Start ==
    /\ engine.isActive \/ engine.nextFrame <= MaxFrames
    /\ engine' = start(engine)
    /\ lastOp' = "start"
    /\ stopReturned' = FALSE
    /\ UNCHANGED <<destroyed, proc, call, scan, calls, page>>

Stop ==
    /\ engine' = stop(engine)
    /\ lastOp' = "stop"
    /\ stopReturned' = TRUE
    /\ UNCHANGED <<destroyed, proc, call, scan, calls, page>>

Frame ==
    /\ engine.nextFrame <= MaxFrames
    /\ \E id \in engine.frames :
          engine' = animate([engine EXCEPT !.frames = engine.frames \ {id}])
    /\ lastOp' = "tick"
    /\ UNCHANGED <<stopReturned, destroyed, proc, call, scan, calls, page>>

UpdateConfig ==
    /\ \E partial \in PartialConfigs : engine' = updateConfig(engine, partial)
    /\ lastOp' = "updateConfig"
    /\ UNCHANGED <<stopReturned, destroyed, proc, call, scan, calls, page>>

Destroy ==
    /\ engine' = destroy(engine)
    /\ lastOp' = "destroy"
    /\ stopReturned' = TRUE
    /\ destroyed' = TRUE
    /\ UNCHANGED <<proc, call, scan, calls, page>>

\* misuse: the tick function invoked while the engine is Stopped
StrayTick ==
    /\ ~engine.isActive
    /\ engine' = animate(engine)
    /\ lastOp' = "strayTick"
    /\ UNCHANGED <<stopReturned, destroyed, proc, call, scan, calls, page>>

NextEngine == Start \/ Stop \/ Frame \/ UpdateConfig \/ Destroy

SpecEngine == InitEngine /\ [][NextEngine]_vars

NextMisuse == Start \/ Stop \/ Frame \/ UpdateConfig \/ Destroy \/ StrayTick

SpecMisuse == InitEngine /\ [][NextMisuse]_vars

SpecTempo == InitTempo /\ [][NextTempo]_vars

(***************************************************************************)
(* Properties of the rotation engine (SpecEngine)                          *)
(***************************************************************************)

\* C1: whatever start(), stop(), updateConfig(), destroy() calls and fired
\* frames have happened, at most one animation-frame callback of the engine
\* is outstanding.
C1_AtMostOneFrame == Cardinality(engine.frames) <= 1

C1_Witness ==
    /\ lastOp = "tick"
    /\ Cardinality(engine.frames) = 1
    /\ engine.nextFrame > 2

\* C2: once stop() has returned, and until the next start(), no callback is
\* outstanding (the one scheduled before the stop was cancelled and cannot
\* fire) and neither the angle nor the position changes.
C2_StopCancels ==
    /\ [](stopReturned =>
            /\ engine.frames = {}
            /\ engine.animationId = Null
            /\ ~engine.isActive)
    /\ [][(stopReturned /\ stopReturned') =>
            /\ engine'.angle = engine.angle
            /\ engine'.position = engine.position]_vars

C2_Witness ==
    /\ stopReturned
    /\ lastOp = "updateConfig"
    /\ engine.angle # 0
    /\ engine.nextFrame > 2

\* C3: when stop() returns, from any state (after any number of ticks, or
\* already Stopped), the engine is Stopped and the position is exactly
\* (0, 0, -1); a second stop() leaves the position at (0, 0, -1).
C3_StopResets ==
    lastOp = "stop" =>
        /\ ~engine.isActive
        /\ engine.position = CenterFront
        /\ ~stop(engine).isActive
        /\ stop(engine).position = CenterFront

C3_Witness ==
    /\ lastOp = "stop"
    /\ engine.angle # 0
    /\ engine.nextFrame > 2
    /\ engine.position = CenterFront

\* C8: when destroy() returns the engine is Stopped, no callback is
\* outstanding and none of the connections source->gain, gain->analyser,
\* analyser->panner, panner->destination remains.
C8_DestroyReleases ==
    lastOp = "destroy" =>
        /\ ~engine.isActive
        /\ engine.frames = {}
        /\ engine.edges \cap GraphEdges = {}

\* C9: after destroy() no later call makes the engine Running, schedules a
\* callback, or changes the angle or the position.
C9_NoReuse ==
    [][destroyed =>
        /\ ~engine'.isActive
        /\ engine'.frames = {}
        /\ engine'.angle = engine.angle
        /\ engine'.position = engine.position]_vars

\* C10: start() is idempotent: in every reachable state two start() calls in
\* a row give the same engine state (running flag, angle, position, scheduled
\* callbacks) as one, and start() while Running changes nothing.
C10_StartIdempotent ==
    /\ start(start(engine)) = start(engine)
    /\ engine.isActive => start(engine) = engine

C10_Witness ==
    /\ lastOp = "start"
    /\ engine.isActive
    /\ engine.angle # engine.config.speed
    /\ Cardinality(start(engine).frames) = 1

(***************************************************************************)
(* Properties of the tempo estimator (SpecTempo)                           *)
(***************************************************************************)
Settled == proc.pc = "settled"

Returned == Settled /\ proc.promise.state = "fulfilled"

FailureCase ==
    \/ ~proc.audioContext
    \/ proc.file.kind \in {"unreadable", "corrupt"}
    \/ proc.file.kind = "audio" /\ SpreadThrows(proc.file.buffer)

Silent(b) == \A j \in 1..Len(b.channelData) : b.channelData[j] = 0

\* C4: the estimator never fails: the call always settles by returning, and
\* in every failure case (no audio context, unreadable or undecodable file,
\* error during analysis) it returns the fallback {120, 0.5, 2.0}.
C4_NeverFails ==
    Settled =>
        /\ proc.promise.state = "fulfilled"
        /\ FailureCase => proc.promise.value = Fallback

\* C5 (as claimed): for an all-zero buffer the estimator returns exactly
\* the fallback {bpm 120, confidence 0.5, optimalSpeed 2.0}.
C5_SilentIsFallback ==
    (Settled /\ proc.audioBuffer # NullBuffer /\ Silent(proc.audioBuffer)) =>
        proc.promise = Fulfilled(Fallback)

\* C5 (amended): for an all-zero decoded buffer the estimator returns
\* exactly {bpm 120, confidence 0.85, optimalSpeed 0.5}: silence has no
\* peaks and takes the normal path with the default bpm.
C5_SilentIsDefaultBpm ==
    (Settled /\ proc.audioBuffer # NullBuffer /\ Silent(proc.audioBuffer)) =>
        proc.promise =
            Fulfilled([bpm |-> 120, confidence |-> 85, optimalSpeed |-> 50])

C5_Witness ==
    /\ Returned
    /\ proc.audioBuffer # NullBuffer
    /\ Silent(proc.audioBuffer)
    /\ NumWindows(proc.audioBuffer) > 2

\* C6: every estimate returned, on every path, has a bpm in 60..200, a
\* confidence in [0, 1] and an optimalSpeed in [0.5, 5.0].
C6_EstimateInRange ==
    Returned =>
        /\ proc.promise.value.bpm \in 60..200
        /\ proc.promise.value.confidence \in 0..100
        /\ proc.promise.value.optimalSpeed \in 50..500

C6_Witness ==
    /\ Returned
    /\ proc.promise.value.bpm = 200
    /\ Len(peaks(proc.audioBuffer)) = 2
    /\ RawBpm(proc.audioBuffer, intervals(peaks(proc.audioBuffer))) > 200

\* C7 (as claimed): in every estimate returned, optimalSpeed is
\* calculateOptimalSpeed of the bpm of that estimate.
C7_SpeedFromBpm ==
    Returned =>
        proc.promise.value.optimalSpeed =
            calculateOptimalSpeed(proc.promise.value.bpm)

\* C7 (amended): in every estimate returned by a completed analysis
\* (detectBPM returned a bpm) the estimate carries that bpm and optimalSpeed
\* is calculateOptimalSpeed of it; on the failure path the fixed fallback
\* {120, 0.5, 2.0} is returned, whose optimalSpeed 2.0 is not derived from
\* its bpm.
C7_SpeedFromBpmOnSuccess ==
    Returned =>
        IF proc.bpm # Null
        THEN /\ proc.promise.value.bpm = proc.bpm
             /\ proc.promise.value.optimalSpeed =
                    calculateOptimalSpeed(proc.promise.value.bpm)
        ELSE proc.promise.value = Fallback

C7_Witness ==
    /\ Returned
    /\ proc.bpm = 171
    /\ proc.promise.value.optimalSpeed = 71

(***************************************************************************)
(* Further properties of the rotation engine (SpecEngine)                  *)
(***************************************************************************)

\* the host runs the scheduled callback of an engine that has one outstanding
FireFrame(e) == animate([e EXCEPT !.frames = {}])

RECURSIVE AfterTicks(_, _)
AfterTicks(e, n) == IF n = 0 THEN e ELSE AfterTicks(FireFrame(e), n - 1)

Running(s) == [updateConfig(NewEngine, [speed |-> s]) EXCEPT !.isActive = TRUE]

\* C11: every execution of animate while Running adds exactly speed * 0.05 to
\* the angle (one angle unit per hundredth of speed), with the speed in force
\* at that execution; at constant speed s, n executions from angle 0 give
\* n * s * 0.05 (speed 2.0 and 10 ticks give 1.0 radian = 2000 units).  The
\* arithmetic is exact here; the doubles of the code agree up to rounding.
C11_AngleStep ==
    /\ [][engine'.nextFrame # engine.nextFrame =>
            /\ engine'.nextFrame = engine.nextFrame + 1
            /\ engine'.angle = engine.angle + engine.config.speed]_vars
    /\ [](\A s \in SpeedValues \cup {DefaultConfig.speed} : \A n \in 0..10 :
            AfterTicks(Running(s), n).angle = n * s)
    /\ [](AfterTicks(Running(200), 10).angle = 2000)

C11_Witness ==
    /\ lastOp = "tick"
    /\ engine.config.speed = 200
    /\ engine.nextFrame = 4
    /\ engine.angle = 3 * 200

\* the engine state apart from the config
Rotation(e) ==
    [isActive |-> e.isActive, angle |-> e.angle, position |-> e.position,
     animationId |-> e.animationId, frames |-> e.frames]

\* C12: updateConfig(partial) sets exactly the config fields present in
\* partial; absent fields keep their values, and the angle, the running
\* flag, the position and the pending callback are unchanged.
C12_UpdateConfigFrame ==
    /\ [](\A partial \in PartialConfigs :
            LET after == updateConfig(engine, partial)
            IN  /\ \A k \in DOMAIN partial : after.config[k] = partial[k]
                /\ \A k \in ConfigKeys \ DOMAIN partial :
                        after.config[k] = engine.config[k]
                /\ Rotation(after) = Rotation(engine))
    /\ [][lastOp' = "updateConfig" => Rotation(engine') = Rotation(engine)]_vars

C12_Witness ==
    /\ lastOp = "updateConfig"
    /\ engine.isActive
    /\ engine.frames # {}
    /\ engine.angle = 2 * 200
    /\ engine.config = [speed |-> 200, intensity |-> 0, radius |-> 500]

\* the point of the circle of radius config.radius * config.intensity at angle
OrbitPosition(angle, config) ==
    << (Cos(angle) * (config.radius * config.intensity)) \div 10000,
       0,
       (Sin(angle) * (config.radius * config.intensity)) \div 10000 >>

\* C13: a config change made between two ticks takes effect on the very next
\* tick: that tick advances the angle by the updated speed and places the
\* source at the updated radius * intensity, while the angle and position
\* produced by the ticks before the change are left as they were.
C13_ConfigOnNextTick ==
    /\ [](engine.isActive =>
            \A partial \in PartialConfigs :
                LET changed == updateConfig(engine, partial)
                    ticked  == FireFrame(changed)
                IN  /\ changed.angle = engine.angle
                    /\ changed.position = engine.position
                    /\ ticked.angle = engine.angle + changed.config.speed
                    /\ ticked.position =
                           OrbitPosition(ticked.angle, changed.config))
    /\ [][(lastOp' = "tick" /\ engine'.nextFrame # engine.nextFrame) =>
            /\ engine'.angle = engine.angle + engine.config.speed
            /\ engine'.position = OrbitPosition(engine'.angle, engine.config)]_vars

C13_Witness ==
    /\ lastOp = "tick"
    /\ engine.config = [speed |-> 200, intensity |-> 100, radius |-> 100]
    /\ engine.angle = DefaultConfig.speed + 200
    /\ engine.position = OrbitPosition(450, engine.config)

\* C14: a tick invoked while the engine is Stopped is a no-op: the angle, the
\* position and the config are unchanged and no callback is scheduled.
C14_StoppedTickNoOp ==
    [][lastOp' = "strayTick" =>
        /\ engine'.angle = engine.angle
        /\ engine'.position = engine.position
        /\ engine'.config = engine.config
        /\ engine'.frames = {}
        /\ engine' = engine]_vars

C14_Witness ==
    /\ lastOp = "strayTick"
    /\ ~engine.isActive
    /\ engine.angle # 0
    /\ engine.position = CenterFront

\* C15: after any sequence of updateConfig calls, whatever values they
\* carry, the config has speed > 0, intensity >= 0 and radius > 0.
C15_ConfigInRange ==
    /\ engine.config.speed > 0
    /\ engine.config.intensity >= 0
    /\ engine.config.radius > 0

\* C16: in every reachable engine state (initial, after any tick, after
\* stop) the y coordinate of the position is 0.
C16_HorizontalPlane == engine.position[2] = 0

C16_Witness ==
    /\ lastOp = "tick"
    /\ engine.position[2] = 0
    /\ engine.position[1] # 0
    /\ engine.position[3] # 0
    /\ engine.config.radius = 100

(***************************************************************************)
(* Properties of the pure methods (SpecCalls)                              *)
(***************************************************************************)
ReturnedFrom(fn) == call.fn = fn /\ call.state = "returned"

\* clamp(bpm / 60 * 0.25, 0.5, 5.0) rounded to 2 decimal places, in exact
\* arithmetic, in hundredths
ExactMapSpeed(bpm) == Round(Max(50 * 240, Min(500 * 240, bpm * 100)), 240)

\* C17: for every integer bpm in [60, 200], calculateOptimalSpeed(bpm) is
\* clamp(bpm / 60 * 0.25, 0.5, 5.0) rounded to 2 decimal places, and lies in
\* [0.5, 5.0].
C17_MapSpeed ==
    (ReturnedFrom("calculateOptimalSpeed") /\ call.bpm \in 60..200) =>
        /\ call.result = ExactMapSpeed(call.bpm)
        /\ call.result \in 50..500

FixedRatioSet == {300, 600, 800, 900, 1200, 1600, 1800, 2400, 3000, 3600}

Ascending(s) == \A i \in 1..(Len(s) - 1) : s[i] < s[i + 1]

Members(s) == {s[i] : i \in 1..Len(s)}

C19_ClosestIsNearest ==
    ReturnedFrom("getClosestRhythmicMultiplier") =>
        LET cands == Members(getRhythmicMultipliers(call.bpm))
        IN  /\ call.result \in cands
            /\ \A c \in cands :
                  /\ Abs(call.value - call.result) <= Abs(call.value - c)
                  /\ Abs(call.value - call.result) = Abs(call.value - c)
                        => call.result <= c
            /\ call.value \in cands => call.result = call.value
            /\ call.value = 312 => call.result = 300

C19_Witness ==
    /\ ReturnedFrom("getClosestRhythmicMultiplier")
    /\ call.bpm = 120
    /\ call.value = 450
    /\ call.result = 300

(***************************************************************************)
(* Further properties of the tempo estimator (SpecTempo)                   *)
(***************************************************************************)

\* the windows (0-based) that are strict local maxima of the energy above
\* 0.3 * max(energy)
PeakWindows(en) ==
    { i \in 0..(Len(en) - 1) :
        /\ i >= 1
        /\ i <= Len(en) - 2
        /\ en[i + 1] > en[i]
        /\ en[i + 1] > en[i + 2]
        /\ 10 * en[i + 1] > 3 * MaxSeq(en) }

\* C20: window i is recorded as a peak exactly when energy[i] > energy[i-1],
\* energy[i] > energy[i+1] and energy[i] > 0.3 * max(energy), so never the
\* first or the last window; peaks are recorded in increasing order, each
\* with time i * hop / sampleRate (here i * hop, in samples).
C20_PeakPicking ==
    proc.bpm # Null =>
        LET b  == proc.audioBuffer
            en == energy(b)
            p  == peaks(b)
        IN  /\ Members(p) = { i * hopSize(b) : i \in PeakWindows(en) }
            /\ Len(p) = Cardinality(PeakWindows(en))
            /\ Ascending(p)
            /\ \A k \in 1..Len(p) :
                  p[k] # 0 /\ p[k] # (Len(en) - 1) * hopSize(b)

C20_Witness ==
    /\ proc.bpm # Null
    /\ Len(peaks(proc.audioBuffer)) = 1
    /\ \E i \in 1..(NumWindows(proc.audioBuffer) - 2) :
          /\ IsLocalMax(energy(proc.audioBuffer), i)
          /\ ~AboveThreshold(energy(proc.audioBuffer), i)

\* C21: when detectBPM returns, the bpm is 120 if fewer than two peaks were
\* found (and the estimate then returned is a normal one, confidence 0.85,
\* not the fallback); otherwise it is round(60 / mean of the differences of
\* consecutive peak times), clamped to [60, 200].  The differences of
\* consecutive peak times sum to last peak - first peak.
C21_DetectedBpm ==
    proc.bpm # Null =>
        LET b == proc.audioBuffer
            p == peaks(b)
            n == Len(p)
        IN  /\ n < 2 =>
                /\ proc.bpm = 120
                /\ Settled => /\ proc.promise.state = "fulfilled"
                              /\ proc.promise.value.bpm = 120
                              /\ proc.promise.value.confidence = 85
            /\ n >= 2 =>
                LET rounded ==
                        Round(60 * b.sampleRate * (n - 1), p[n] - p[1])
                IN  proc.bpm = IF rounded < 60 THEN 60
                               ELSE IF rounded > 200 THEN 200 ELSE rounded

C21_Witness ==
    /\ Returned
    /\ Len(peaks(proc.audioBuffer)) = 3
    /\ LET p == peaks(proc.audioBuffer)
       IN  p[2] - p[1] # p[3] - p[2]
    /\ proc.promise.value.bpm \in 61..199

(***************************************************************************)
(* detectBPM loop by loop: scan.i is the index of the energy loop,         *)
(* scan.pushes the length of the energy array (not distinguished beyond    *)
(* the number of samples), scan.k the index of the peak scan.  Init draws  *)
(* the buffer that decodeAudioData has just stored in this.audioBuffer.    *)
(***************************************************************************)

\* positive sample rates with windowSize 0, 1, 2, 4 and hopSize 0, 0, 1, 2
ScanRates == {5, 10, 20, 40}

ScanBuffers ==
    { [sampleRate |-> r, channelData |-> d] :
        r \in ScanRates, d \in UNION { [1..n -> SampleValues] : n \in 0..MaxLen } }

InitScan ==
    /\ proc \in { [NewProcessor(TRUE) EXCEPT
                      !.file        = [kind |-> "audio", buffer |-> b],
                      !.audioBuffer = b,
                      !.pc          = "energyLoop"] : b \in ScanBuffers }
    /\ scan = NoScan
    /\ engine = NewEngine
    /\ lastOp = "new"
    /\ stopReturned = FALSE
    /\ destroyed = FALSE
    /\ call = NoCall
    /\ calls = NoCalls
    /\ page = NoPage

EnergyLoopTest(b, i) == i < Len(b.channelData) - windowSize(b)

EnergyLoopStep ==
    /\ proc.pc = "energyLoop"
    /\ EnergyLoopTest(proc.audioBuffer, scan.i)
    /\ scan' = [scan EXCEPT
                   !.i      = scan.i + hopSize(proc.audioBuffer),
                   !.pushes = Min(scan.pushes + 1,
                                  Len(proc.audioBuffer.channelData))]
    /\ UNCHANGED <<engine, lastOp, stopReturned, destroyed, proc, call, calls, page>>

EnergyLoopExit ==
    /\ proc.pc = "energyLoop"
    /\ ~EnergyLoopTest(proc.audioBuffer, scan.i)
    /\ proc' = [proc EXCEPT !.pc = "peakScan"]
    /\ scan' = [scan EXCEPT !.k = 1]
    /\ UNCHANGED <<engine, lastOp, stopReturned, destroyed, call, calls, page>>

PeakScanStep ==
    /\ proc.pc = "peakScan"
    /\ scan.k < scan.pushes - 1
    /\ IF /\ IsLocalMax(energy(proc.audioBuffer), scan.k)
          /\ scan.pushes > SpreadLimit
       THEN /\ proc' = Settle(proc, Fulfilled(Fallback))
            /\ scan' = scan
       ELSE /\ scan' = [scan EXCEPT !.k = scan.k + 1]
            /\ proc' = proc
    /\ UNCHANGED <<engine, lastOp, stopReturned, destroyed, call, calls, page>>

PeakScanExit ==
    /\ proc.pc = "peakScan"
    /\ ~(scan.k < scan.pushes - 1)
    /\ proc' = [proc EXCEPT !.pc  = "detectBPM",
                            !.bpm = detectBPM(proc.audioBuffer)]
    /\ UNCHANGED <<engine, lastOp, stopReturned, destroyed, call, scan, calls, page>>

NextScan ==
    EnergyLoopStep \/ EnergyLoopExit \/ PeakScanStep \/ PeakScanExit
        \/ DetectSettles

\* the loops run synchronously: a step that can be taken is taken
SpecScan == InitScan /\ [][NextScan]_vars /\ WF_vars(NextScan)

C23_RunningIffOneFrame ==
    /\ [](engine.isActive <=> Cardinality(engine.frames) = 1)
    /\ [](~engine.isActive => engine.frames = {})
    /\ [][(lastOp' = "tick" /\ engine.isActive) =>
            /\ engine'.isActive
            /\ engine'.frames = {engine.nextFrame}
            /\ engine'.animationId = engine.nextFrame]_vars

C23_Witness ==
    /\ lastOp = "tick"
    /\ engine.isActive
    /\ engine.frames = {engine.animationId}
    /\ engine.animationId = 3

\* C24 (as claimed): in every reachable state in which the engine is
\* Stopped, the freshly constructed engine included, the position is the
\* center-front reference (0, 0, -1).
C24_StoppedAtCenterFront == ~engine.isActive => engine.position = CenterFront

\* C24 (amended): a Stopped engine is at (0, 0, -1) once stop() or destroy()
\* has been called; the freshly constructed engine, until its first start(),
\* stop() or destroy(), is at the start position (3, 0, 0).
C24_StoppedPosition ==
    ~engine.isActive =>
        engine.position = IF stopReturned THEN CenterFront ELSE StartPosition

C24_Witness ==
    /\ ~engine.isActive
    /\ ~stopReturned
    /\ lastOp = "updateConfig"
    /\ engine.config # DefaultConfig
    /\ engine.position = <<3000, 0, 0>>

\* C25 (as claimed): start() from Stopped only makes the engine Running and
\* schedules the first tick: the angle and the position are the same after
\* start() returns as before, and the angle changes only when a scheduled tick
\* fires.
C25_StartOnlySchedules ==
    /\ [][(lastOp' = "start" /\ ~engine.isActive) =>
            /\ engine'.isActive
            /\ Cardinality(engine'.frames) = 1
            /\ engine'.angle = engine.angle
            /\ engine'.position = engine.position]_vars
    /\ [][engine'.angle # engine.angle => lastOp' = "tick"]_vars

\* C25 (amended): start() from Stopped makes the engine Running and runs the
\* first tick itself before it returns: the angle has advanced by
\* speed * 0.05, the position is the orbit point of the new angle, and one
\* further tick is scheduled.  After that the angle changes only when a
\* scheduled tick fires; start() while Running changes nothing.
C25_StartRunsFirstTick ==
    /\ [][(lastOp' = "start" /\ ~engine.isActive) =>
            /\ engine'.isActive
            /\ engine'.frames = {engine.nextFrame}
            /\ engine'.angle = engine.angle + engine.config.speed
            /\ engine'.position =
                   OrbitPosition(engine'.angle, engine.config)]_vars
    /\ [][engine'.angle # engine.angle =>
            \/ lastOp' = "tick"
            \/ lastOp' = "start" /\ ~engine.isActive]_vars

C25_Witness ==
    /\ lastOp = "start"
    /\ engine.isActive
    /\ engine.config.speed = 200
    /\ engine.angle = 200
    /\ engine.position = OrbitPosition(200, engine.config)
    /\ engine.position # StartPosition

(***************************************************************************)
(* Two analyzeFile calls on one AudioProcessor.  proc holds the fields of  *)
(* the object (audioContext, audioBuffer); calls[c] holds the locals of    *)
(* call c, its position, its promise, and in sampled the buffer that its   *)
(* detectBPM read from this.audioBuffer.                                   *)
(***************************************************************************)
CallIds == {1, 2}

\* two bursts at sample rate 20: estimates 200, 133 and 71
OverlapChannelDatas ==
    { [j \in 1..(LongLen - 4) |->
          IF j \in Burst(3) \cup Burst(q) THEN 1 ELSE 0] : q \in {8, 12, 20} }
    \cup { [j \in 1..LongLen |-> IF j \in Burst(3) THEN 1 ELSE 0],
           [j \in 1..MaxLen |-> 0] }

OverlapFiles ==
    { [kind |-> "unreadable"], [kind |-> "corrupt"] }
        \cup { [kind |-> "audio",
                buffer |-> [sampleRate |-> 20, channelData |-> d]] :
                    d \in OverlapChannelDatas }

NewCall ==
    [pc |-> "idle", file |-> NoFile, sampled |-> NullBuffer, bpm |-> Null,
     promise |-> Pending]

InitOverlap ==
    /\ proc \in { NewProcessor(ctx) : ctx \in BOOLEAN }
    /\ calls = [c \in CallIds |-> NewCall]
    /\ engine = NewEngine
    /\ lastOp = "new"
    /\ stopReturned = FALSE
    /\ destroyed = FALSE
    /\ call = NoCall
    /\ scan = NoScan
    /\ page = NoPage

\* what analyzeFile(file) of a processor with an audio context resolves to
Resolution(file) ==
    IF file.kind # "audio" THEN Fallback
    ELSE IF SpreadThrows(file.buffer) THEN Fallback
         ELSE AnalysisResult(detectBPM(file.buffer))

DecodeResumes_readsBeforeWrite(p, c) ==
    LET q == [p EXCEPT !.audioBuffer = c.file.buffer]
    IN  [ proc |-> q,
          call |-> IF SpreadThrows(p.audioBuffer)
                   THEN Settle(c, Fulfilled(Fallback))
                   ELSE [c EXCEPT !.pc      = "detectBPM",
                                  !.sampled = p.audioBuffer,
                                  !.bpm     = detectBPM(p.audioBuffer)] ]

\* the continuation of 'this.audioBuffer = await decodeAudioData(...)': the
\* field is assigned and detectBPM, which has no await in its body, reads it
\* and runs to its end before the call is suspended again
DecodeResumes(p, c) ==
    LET q == [p EXCEPT !.audioBuffer = c.file.buffer]
    IN  [ proc |-> q,
          call |-> IF SpreadThrows(q.audioBuffer)
                   THEN Settle(c, Fulfilled(Fallback))
                   ELSE [c EXCEPT !.pc      = "detectBPM",
                                  !.sampled = q.audioBuffer,
                                  !.bpm     = detectBPM(q.audioBuffer)] ]

OverlapAnalyzeFile ==
    /\ \E c \in CallIds : \E file \in OverlapFiles :
          /\ calls[c].pc = "idle"
          /\ calls' = [calls EXCEPT ![c] =
                IF ~proc.audioContext
                THEN Settle([calls[c] EXCEPT !.file = file],
                            Rejected("Audio context not initialized"))
                ELSE [calls[c] EXCEPT !.file = file, !.pc = "arrayBuffer"]]
    /\ UNCHANGED <<engine, lastOp, stopReturned, destroyed, proc, call, scan, page>>

OverlapArrayBufferSettles ==
    /\ \E c \in CallIds :
          /\ calls[c].pc = "arrayBuffer"
          /\ calls' = [calls EXCEPT ![c] =
                IF calls[c].file.kind = "unreadable"
                THEN Settle(calls[c], Fulfilled(Fallback))
                ELSE [calls[c] EXCEPT !.pc = "decodeAudioData"]]
    /\ UNCHANGED <<engine, lastOp, stopReturned, destroyed, proc, call, scan, page>>

OverlapDecodeSettles ==
    /\ \E c \in CallIds :
          /\ calls[c].pc = "decodeAudioData"
          /\ IF calls[c].file.kind = "corrupt"
             THEN /\ calls' = [calls EXCEPT ![c] =
                                  Settle(calls[c], Fulfilled(Fallback))]
                  /\ proc' = proc
             ELSE /\ calls' = [calls EXCEPT ![c] =
                                  DecodeResumes(proc, calls[c]).call]
                  /\ proc' = DecodeResumes(proc, calls[c]).proc
    /\ UNCHANGED <<engine, lastOp, stopReturned, destroyed, call, scan, page>>

OverlapDetectSettles ==
    /\ \E c \in CallIds :
          /\ calls[c].pc = "detectBPM"
          /\ calls' = [calls EXCEPT ![c] =
                Settle(calls[c], Fulfilled(AnalysisResult(calls[c].bpm)))]
    /\ UNCHANGED <<engine, lastOp, stopReturned, destroyed, proc, call, scan, page>>

NextOverlap ==
    OverlapAnalyzeFile \/ OverlapArrayBufferSettles \/ OverlapDecodeSettles
        \/ OverlapDetectSettles

SpecOverlap == InitOverlap /\ [][NextOverlap]_vars

\* C29: when two analyzeFile calls on one AudioProcessor overlap, resumed in
\* any order, the detectBPM of each call reads from this.audioBuffer the
\* buffer decoded from its own file (never the one the other call stored),
\* and each call returns the estimate of its own file.
C29_OwnSamples ==
    \A c \in CallIds :
        /\ calls[c].pc = "detectBPM" =>
              /\ calls[c].sampled = calls[c].file.buffer
              /\ calls[c].bpm = detectBPM(calls[c].file.buffer)
        /\ (calls[c].pc = "settled" /\ proc.audioContext) =>
              calls[c].promise = Fulfilled(Resolution(calls[c].file))

C29_Witness ==
    /\ calls[1].pc = "settled"
    /\ calls[2].pc = "detectBPM"
    /\ calls[1].sampled # NullBuffer
    /\ calls[1].promise.value.bpm = 133
    /\ calls[2].bpm = 71
    /\ proc.audioBuffer = calls[1].file.buffer

(***************************************************************************)
(* The page (Home, with the useAudio hook and the ControlPanel).  page     *)
(* holds the React state and the refs; engine is the EightDProcessor that  *)
(* eightDProcessorRef points to while page.engineRef holds.  A file        *)
(* selection is numbered (sel), and an analysis result carries the number  *)
(* of the selection it was computed from and the handler that stored it.   *)
(* An action is an event handler together with the render and the effects  *)
(* that follow it; an effect runs when one of its dependencies changed.    *)
(***************************************************************************)
MaxSelections == 2

\* two files with different estimates: two bursts three hops apart (bpm
\* 200, optimalSpeed 0.83) and silence (bpm 120, optimalSpeed 0.5)
PageFiles ==
    { [kind |-> "audio",
       buffer |-> [sampleRate |-> 20, channelData |-> d]] :
        d \in { <<0, 1, 1, 0, 1, 1, 0, 0>>, <<0, 0, 0, 0>> } }

\* slider positions (0.55 and 2.5); the slider runs from 0.25 to 3 by 0.05
SliderValues == {660, 3000}

NoAudioFile == [sel |-> 0]

NoResult == [sel |-> 0]

NoJob == [sel |-> 0]

NewPanel ==
    [ isAnalyzing         |-> FALSE,
      localAnalysisResult |-> NoResult,
      rhythmicMultipliers |-> <<>>,
      job                 |-> NoJob ]

NewPage ==
    [ mounted        |-> TRUE,
      hasContext     |-> FALSE,
      engineRef      |-> FALSE,
      audioFile      |-> NoAudioFile,
      nextSel        |-> 1,
      src            |-> 0,
      isLoading      |-> FALSE,
      loaded         |-> FALSE,
      isPlaying      |-> FALSE,
      analysisResult |-> NoResult,
      pending        |-> {},
      mode           |-> "manual",
      manualSpeed    |-> 250,
      autoMultiplier |-> 1200,
      polls          |-> 0,
      panel          |-> NewPanel ]

InitPage ==
    /\ page = NewPage
    /\ engine = NewEngine
    /\ lastOp = "new"
    /\ stopReturned = FALSE
    /\ destroyed = FALSE
    /\ proc = NewProcessor(TRUE)
    /\ call = NoCall
    /\ scan = NoScan
    /\ calls = NoCalls

\* the speed the page sends to the engine, in hundredths
PageSpeed(p) ==
    IF p.mode = "manual" THEN p.manualSpeed
    ELSE IF p.analysisResult # NoResult
         THEN Round(p.analysisResult.value.optimalSpeed * p.autoMultiplier, 1200)
         ELSE p.manualSpeed

CreateEffect(st) ==
    IF st.page.hasContext /\ ~st.page.engineRef
    THEN [page |-> [st.page EXCEPT !.engineRef = TRUE], engine |-> NewEngine]
    ELSE st

ConfigEffect(st) ==
    IF ~st.page.engineRef THEN st
    ELSE [st EXCEPT !.engine =
            updateConfig(st.engine, [speed     |-> PageSpeed(st.page),
                                     intensity |-> 100,
                                     radius    |-> 500])]

StartStopEffect(st) ==
    IF ~st.page.engineRef THEN st
    ELSE IF st.page.isPlaying /\ st.page.audioFile # NoAudioFile
         THEN [st EXCEPT !.engine = start(st.engine)]
         ELSE [st EXCEPT !.engine = stop(st.engine)]

\* updateAnalyserData() runs once and requests a frame for itself
PollEffect(st) ==
    IF ~st.page.engineRef \/ ~st.page.isPlaying THEN st
    ELSE [st EXCEPT !.page.polls = st.page.polls + 1]

ConfigDeps(p) == <<p.mode, p.manualSpeed, p.autoMultiplier, p.analysisResult>>

\* the render after a handler changed the state from old to new, and the
\* effects whose dependencies changed, in the order of their declaration
Commit(old, new, e) ==
    LET s0 == [page |-> new, engine |-> e]
        s1 == IF old.hasContext # new.hasContext THEN CreateEffect(s0) ELSE s0
        s2 == IF ConfigDeps(old) # ConfigDeps(new) THEN ConfigEffect(s1) ELSE s1
        s3 == IF old.isPlaying # new.isPlaying \/ old.audioFile # new.audioFile
              THEN StartStopEffect(s2) ELSE s2
    IN  IF old.isPlaying # new.isPlaying THEN PollEffect(s3) ELSE s3

initializeAudioContext(p) ==
    IF ~p.hasContext THEN [p EXCEPT !.hasContext = TRUE] ELSE p

loadAudioFile(p, file) ==
    [p EXCEPT !.audioFile = [sel |-> p.nextSel, file |-> file, meta |-> FALSE],
              !.nextSel   = p.nextSel + 1,
              !.src       = p.nextSel,
              !.isLoading = TRUE,
              !.loaded    = FALSE]

\* handleFileSelect up to its first await: the analysis is left pending
handleFileSelect(p, e, file) ==
    LET p1 == loadAudioFile(initializeAudioContext(p), file)
        p2 == [p1 EXCEPT !.pending =
                  p1.pending \cup {[sel |-> p.nextSel, file |-> file]}]
    IN  Commit(p, p2, e)

HandleFileSelect ==
    /\ page.nextSel <= MaxSelections
    /\ \E file \in PageFiles :
          LET st == handleFileSelect(page, engine, file)
          IN  page' = st.page /\ engine' = st.engine
    /\ lastOp' = "handleFileSelect"
    /\ UNCHANGED <<stopReturned, destroyed, proc, call, scan, calls>>

\* the rest of handleFileSelect, when analyzeFile resolves
AnalysisResolves ==
    /\ \E a \in page.pending :
          LET p1 == [page EXCEPT
                        !.pending        = page.pending \ {a},
                        !.analysisResult =
                            [sel |-> a.sel, by |-> "handleFileSelect",
                             value |-> Resolution(a.file)]]
              st == Commit(page, p1, engine)
          IN  page' = st.page /\ engine' = st.engine
    /\ lastOp' = "analysisResolves"
    /\ UNCHANGED <<stopReturned, destroyed, proc, call, scan, calls>>

\* the catch of handleFileSelect: analyzeFile rejected (no audio context)
AnalysisFails ==
    /\ \E a \in page.pending : page' = [page EXCEPT !.pending = page.pending \ {a}]
    /\ lastOp' = "analysisFails"
    /\ UNCHANGED <<engine, stopReturned, destroyed, proc, call, scan, calls>>

\* the audio element reports loadeddata, or error when its src was cleared
handleLoadedData(p, e) ==
    LET p0 == initializeAudioContext(p)
        p1 == IF p.src # 0
              THEN [p0 EXCEPT !.isLoading = FALSE, !.loaded = TRUE,
                              !.audioFile.meta = TRUE]
              ELSE [p0 EXCEPT !.isLoading = FALSE]
    IN  Commit(p, p1, e)

MediaSettles ==
    /\ page.isLoading
    /\ LET st == handleLoadedData(page, engine)
       IN  page' = st.page /\ engine' = st.engine
    /\ lastOp' = "mediaSettles"
    /\ UNCHANGED <<stopReturned, destroyed, proc, call, scan, calls>>

\* the play/pause button: pause(), or play() of a loaded source
TogglePlay ==
    /\ page.audioFile # NoAudioFile
    /\ ~page.isLoading
    /\ \/ page.isPlaying
       \/ /\ page.loaded
          /\ \/ ~page.engineRef
             \/ engine.isActive
             \/ engine.nextFrame <= MaxFrames
    /\ LET p1 == [page EXCEPT !.isPlaying = ~page.isPlaying]
           st == Commit(page, p1, engine)
       IN  page' = st.page /\ engine' = st.engine
    /\ lastOp' = "togglePlay"
    /\ UNCHANGED <<stopReturned, destroyed, proc, call, scan, calls>>

HandleRemoveFile ==
    /\ page.audioFile # NoAudioFile
    /\ LET p1 == [page EXCEPT !.isPlaying      = FALSE,
                              !.src            = 0,
                              !.loaded         = FALSE,
                              !.analysisResult = NoResult,
                              !.mode           = "manual",
                              !.manualSpeed    = 250,
                              !.autoMultiplier = 1200,
                              !.engineRef      = FALSE]
           e1 == IF page.engineRef THEN destroy(engine) ELSE engine
           st == Commit(page, p1, e1)
       IN  page' = st.page /\ engine' = st.engine
    /\ lastOp' = "handleRemoveFile"
    /\ UNCHANGED <<stopReturned, destroyed, proc, call, scan, calls>>

HandleModeChange ==
    /\ \E m \in {"manual", "automatic"} :
          /\ m # page.mode
          /\ LET st == Commit(page, [page EXCEPT !.mode = m], engine)
             IN  page' = st.page /\ engine' = st.engine
    /\ lastOp' = "handleModeChange"
    /\ UNCHANGED <<stopReturned, destroyed, proc, call, scan, calls>>

handleMultiplierChange(p, value) ==
    LET mults == p.panel.rhythmicMultipliers
    IN  IF /\ \/ p.analysisResult # NoResult
              \/ p.panel.localAnalysisResult # NoResult
           /\ Len(mults) > 0
        THEN ScanClosest(mults, value, mults[1], Abs(value - mults[1]))
        ELSE value

HandleMultiplierChange ==
    /\ page.mode = "automatic"
    /\ \E value \in SliderValues :
          LET p1 == [page EXCEPT !.autoMultiplier =
                                      handleMultiplierChange(page, value)]
              st == Commit(page, p1, engine)
          IN  page' = st.page /\ engine' = st.engine
    /\ lastOp' = "handleMultiplierChange"
    /\ UNCHANGED <<stopReturned, destroyed, proc, call, scan, calls>>

\* handleAnalyze up to its await; job keeps the props the handler closed over
HandleAnalyze ==
    /\ page.mode = "automatic"
    /\ page.audioFile # NoAudioFile
    /\ ~page.panel.isAnalyzing
    /\ page' = [page EXCEPT
                  !.panel.isAnalyzing = TRUE,
                  !.panel.job = [sel            |-> page.audioFile.sel,
                                 file           |-> page.audioFile.file,
                                 autoMultiplier |-> page.autoMultiplier]]
    /\ lastOp' = "handleAnalyze"
    /\ UNCHANGED <<engine, stopReturned, destroyed, proc, call, scan, calls>>

\* the rest of handleAnalyze, and handleAnalysisComplete of the page
AnalyzeResolves ==
    /\ page.panel.isAnalyzing
    /\ LET job     == page.panel.job
           result  == Resolution(job.file)
           closest == getClosestRhythmicMultiplier(job.autoMultiplier, result.bpm)
           stored  == [sel |-> job.sel, by |-> "handleAnalyze", value |-> result]
           p1 == [page EXCEPT
                    !.panel = [isAnalyzing         |-> FALSE,
                               localAnalysisResult |-> stored,
                               rhythmicMultipliers |->
                                   getRhythmicMultipliers(result.bpm),
                               job                 |-> NoJob],
                    !.autoMultiplier =
                        IF Abs(closest - job.autoMultiplier) > 12
                        THEN closest ELSE page.autoMultiplier,
                    !.analysisResult = stored]
           st == Commit(page, p1, engine)
       IN  page' = st.page /\ engine' = st.engine
    /\ lastOp' = "analyzeResolves"
    /\ UNCHANGED <<stopReturned, destroyed, proc, call, scan, calls>>

\* the catch of handleAnalyze
AnalyzeFails ==
    /\ page.panel.isAnalyzing
    /\ page' = [page EXCEPT !.panel.isAnalyzing = FALSE, !.panel.job = NoJob]
    /\ lastOp' = "analyzeFails"
    /\ UNCHANGED <<engine, stopReturned, destroyed, proc, call, scan, calls>>

\* an outstanding updateAnalyserData callback runs and requests the next one
UpdateAnalyserData ==
    /\ page.polls > 0
    /\ lastOp' = "updateAnalyserData"
    /\ UNCHANGED <<engine, page, stopReturned, destroyed, proc, call, scan, calls>>

\* the page: file selection and removal, playback, the automatic analysis,
\* and the ticks of the engine it has started
NextPage ==
    HandleFileSelect \/ AnalysisResolves \/ AnalysisFails \/ MediaSettles
        \/ TogglePlay \/ HandleRemoveFile \/ UpdateAnalyserData \/ Frame

SpecPage == InitPage /\ [][NextPage]_vars

\* the control panel of a page on which one file was selected and has
\* loaded, while the automatic analysis of that file is pending
InitPanel ==
    /\ \E file \in PageFiles :
          LET s1 == handleFileSelect(NewPage, NewEngine, file)
              s2 == handleLoadedData(s1.page, s1.engine)
          IN  page = s2.page /\ engine = s2.engine
    /\ lastOp = "mediaSettles"
    /\ stopReturned = FALSE
    /\ destroyed = FALSE
    /\ proc = NewProcessor(TRUE)
    /\ call = NoCall
    /\ scan = NoScan
    /\ calls = NoCalls

NextPanel ==
    AnalysisResolves \/ AnalysisFails \/ HandleModeChange
        \/ HandleMultiplierChange \/ HandleAnalyze \/ AnalyzeResolves
        \/ AnalyzeFails

SpecPanel == InitPanel /\ [][NextPanel]_vars

(***************************************************************************)
(* Properties of the page (SpecPage) and of its control panel (SpecPanel)  *)
(***************************************************************************)

\* C26: whenever the page holds a non-null analysis result, it was computed
\* from the most recently selected file and that file has not been removed:
\* after remove-file the result stays null until a new file is selected, and
\* a late analysis of an earlier file never replaces the current result.
C26_ResultOfCurrentFile ==
    page.analysisResult # NoResult =>
        /\ page.analysisResult.sel = page.audioFile.sel
        /\ page.src # 0

\* C27: an engine exists for every playback session: whenever audio is
\* playing, also after a file was removed and a new one selected, the page
\* has a rotation engine and it is Running.
C27_EngineForEverySession ==
    page.isPlaying => (page.engineRef /\ engine.isActive)

\* C28: at most one updateAnalyserData callback is outstanding at any time,
\* and none is outstanding once playback has stopped.
C28_OnePollingCallback ==
    /\ page.polls <= 1
    /\ ~page.isPlaying => page.polls = 0

\* C30: in automatic mode, whenever the page holds a tempo estimate, a
\* multiplier chosen on the slider is snapped to a member of the candidate
\* ratios before it is combined with the base speed and sent to the engine.
C30_SliderSnaps ==
    [][(/\ lastOp' = "handleMultiplierChange"
        /\ page.mode = "automatic"
        /\ page.analysisResult # NoResult) =>
            /\ page'.autoMultiplier \in
                   Members(getRhythmicMultipliers(page.analysisResult.value.bpm))
            /\ page'.engineRef => engine'.config.speed = PageSpeed(page')]_vars

====
